---- MODULE Spec2Model ----
(***************************************************************************)
(* A model of the allwords crate (src/src/lib.rs): an Alphabet built by    *)
(* Alphabet::from_chars_in_str and one WordsIterator built from it by one  *)
(* of the four constructors and then pulled with Iterator::next.           *)
(*                                                                         *)
(* A char is its Unicode scalar value, a String is a sequence of chars, an *)
(* Option<T> is the empty sequence (None) or a one-element sequence        *)
(* (Some), and a HashMap is a function whose DOMAIN is the set of keys.    *)
(***************************************************************************)
EXTENDS Integers, Sequences, FiniteSets, TLC

\* ---------------------------------------------------------------- bounds
\* longest alphabet_str handed to from_chars_in_str
MaxSrcLen == 3
\* longest start_word handed to all_words_starting_from, largest start_len
MaxStartLen == 2
\* largest m of a max_len = Some(m)
MaxBound == 3
\* number of next() calls made on a generator with max_len = None
MaxPulls == 8
\* number of next() calls made that return None
MaxNones == 2
\* longest string parsed into an Alphabet by from_str
MaxParseLen == 2
\* longest start_word and largest bound of two iterators on one alphabet
MaxPairLen == 1

\* the chars the inputs are drawn from: 'a', 'b' (one byte each in UTF-8)
\* and U+00E9 (two bytes in UTF-8)
Chars == {97, 98, 233}

\* ------------------------------------------------------------- Option<T>
None == << >>
Some(x) == << x >>
is_some(o) == o # None
is_none(o) == o = None
unwrap(o) == o[1]

\* ---------------------------------------------------------------- String
\* all Strings of at most n chars
Strings(n) == UNION {[1..k -> Chars] : k \in 0..n}

\* char::len_utf8: the number of bytes of the UTF-8 encoding of c
len_utf8(c) ==
    IF c < 128 THEN 1 ELSE IF c < 2048 THEN 2 ELSE IF c < 65536 THEN 3 ELSE 4

\* String::len: the length of the string in bytes
RECURSIVE len(_)
len(s) == IF s = << >> THEN 0 ELSE len_utf8(Head(s)) + len(Tail(s))

\* ------------------------------------------------------------- HashMap
EmptyMap == [k \in {} |-> None]
contains_key(m, k) == k \in DOMAIN m
insert(m, k, v) == [x \in (DOMAIN m) \cup {k} |-> IF x = k THEN v ELSE m[x]]
or_insert(m, k, v) == IF contains_key(m, k) THEN m ELSE insert(m, k, v)
\* get_or_none taking a missing key for its own successor
get_or_none_Keep(m, k) == IF contains_key(m, k) THEN m[k] ELSE Some(k)

\* HashMap::get(..).unwrap_or(&None)
get_or_none(m, k) == IF contains_key(m, k) THEN m[k] ELSE None

\* --------------------------------------------------------------- Alphabet
ErrMsg == "Invalid alphabet string. Found less than 2 unique chars"

\* the state of the scan of from_chars_in_str before its first char
ScanInit == [next_char_map |-> EmptyMap, first_char |-> None, previous_char |-> None]

\* ScanStep without the contains_key test: a later repeat of a symbol is
\* registered again
ScanStep_NoContainsKey(st, c) ==
    IF is_none(st.first_char)
    THEN [st EXCEPT !.first_char = Some(c), !.previous_char = Some(c)]
    ELSE IF /\ is_some(st.previous_char)
            /\ unwrap(st.previous_char) # c
         THEN [st EXCEPT
                 !.next_char_map = insert(st.next_char_map, unwrap(st.previous_char), Some(c)),
                 !.previous_char = Some(c)]
         ELSE st

\* one iteration of the loop of from_chars_in_str, on char c
ScanStep(st, c) ==
    IF is_none(st.first_char)
    THEN [st EXCEPT !.first_char = Some(c), !.previous_char = Some(c)]
    ELSE IF /\ is_some(st.previous_char)
            /\ unwrap(st.previous_char) # c
            /\ ~contains_key(st.next_char_map, c)
         THEN [st EXCEPT
                 !.next_char_map = insert(st.next_char_map, unwrap(st.previous_char), Some(c)),
                 !.previous_char = Some(c)]
         ELSE st

\* the loop of from_chars_in_str over the chars of s, left to right
RECURSIVE Scan(_, _)
Scan(st, s) == IF s = << >> THEN st ELSE Scan(ScanStep(st, Head(s)), Tail(s))

\* from_chars_in_str without the entry of the last char
from_chars_in_str_NoLastChar(alphabet_str) ==
    LET st == Scan(ScanInit, alphabet_str)
        map == st.next_char_map
    IN  IF Cardinality(DOMAIN map) < 2
        THEN [kind |-> "Err", err |-> ErrMsg]
        ELSE IF is_none(st.first_char)
             THEN [kind |-> "Panic"]
             ELSE [kind |-> "Ok", next_char_map |-> map, first_char |-> unwrap(st.first_char)]

\* Alphabet::from_chars_in_str: Ok(Alphabet), Err(String), or a panic of an
\* unwrap() of None
from_chars_in_str(alphabet_str) ==
    LET st == Scan(ScanInit, alphabet_str)
        map == IF is_some(st.previous_char)
               THEN or_insert(st.next_char_map, unwrap(st.previous_char), None)
               ELSE st.next_char_map
    IN  IF Cardinality(DOMAIN map) < 2
        THEN [kind |-> "Err", err |-> ErrMsg]
        ELSE IF is_none(st.first_char)
             THEN [kind |-> "Panic"]
             ELSE [kind |-> "Ok", next_char_map |-> map, first_char |-> unwrap(st.first_char)]

\* ---------------------------------------------------------- WordsIterator
\* CarryStep pushing first_char also once the carry is absorbed
CarryStep_NoCopy(alpha, acc, c) ==
    IF acc.carry
    THEN LET next_char == get_or_none(alpha.next_char_map, c)
         IN  IF is_some(next_char)
             THEN [carry |-> FALSE, item |-> <<unwrap(next_char)>> \o acc.item]
             ELSE [carry |-> TRUE, item |-> <<alpha.first_char>> \o acc.item]
    ELSE [carry |-> acc.carry, item |-> <<alpha.first_char>> \o acc.item]

\* CarryStep clearing the carry when the symbol has no successor
CarryStep_NoCarry(alpha, acc, c) ==
    IF acc.carry
    THEN LET next_char == get_or_none(alpha.next_char_map, c)
         IN  IF is_some(next_char)
             THEN [carry |-> FALSE, item |-> <<unwrap(next_char)>> \o acc.item]
             ELSE [carry |-> FALSE, item |-> <<alpha.first_char>> \o acc.item]
    ELSE [carry |-> acc.carry, item |-> <<c>> \o acc.item]

\* CarryStep leaving a symbol without successor in place while it carries
CarryStep_KeepOnCarry(alpha, acc, c) ==
    IF acc.carry
    THEN LET next_char == get_or_none(alpha.next_char_map, c)
         IN  IF is_some(next_char)
             THEN [carry |-> FALSE, item |-> <<unwrap(next_char)>> \o acc.item]
             ELSE [carry |-> TRUE, item |-> <<c>> \o acc.item]
    ELSE [carry |-> acc.carry, item |-> <<c>> \o acc.item]

\* the body of the loop of next() on char c, with the digits to the right
\* already in acc.item: one step of the right-to-left carry
CarryStep(alpha, acc, c) ==
    IF acc.carry
    THEN LET next_char == get_or_none(alpha.next_char_map, c)
         IN  IF is_some(next_char)
             THEN [carry |-> FALSE, item |-> <<unwrap(next_char)>> \o acc.item]
             ELSE [carry |-> TRUE, item |-> <<alpha.first_char>> \o acc.item]
    ELSE [carry |-> acc.carry, item |-> <<c>> \o acc.item]

\* the loop of next() over current_item.chars().rev()
RECURSIVE CarryLoop(_, _, _)
CarryLoop(alpha, acc, s) ==
    IF s = << >> THEN acc
    ELSE CarryLoop(alpha, CarryStep(alpha, acc, s[Len(s)]), SubSeq(s, 1, Len(s) - 1))

\* Successor with the push_front of first_char made whatever the carry
Successor_AlwaysGrow(alpha, current_item) ==
    LET acc == CarryLoop(alpha, [carry |-> TRUE, item |-> << >>], current_item)
    IN  <<alpha.first_char>> \o acc.item

\* Successor without the push_front of first_char on a final carry: the
\* word wraps around instead of growing
Successor_NoGrow(alpha, current_item) ==
    CarryLoop(alpha, [carry |-> TRUE, item |-> << >>], current_item).item

\* the new next_item that next() stores when it returns current_item
Successor(alpha, current_item) ==
    LET acc == CarryLoop(alpha, [carry |-> TRUE, item |-> << >>], current_item)
    IN  IF acc.carry THEN <<alpha.first_char>> \o acc.item ELSE acc.item

\* Exhausted with a missing bound read as the bound 0
Exhausted_NoneIsZero(ml, item) == (IF is_some(ml) THEN unwrap(ml) ELSE 0) < len(item)

\* Exhausted with the comparison turned around
Exhausted_Flipped(ml, item) == is_some(ml) /\ unwrap(ml) > len(item)

\* the early return of next()
Exhausted(ml, item) == is_some(ml) /\ unwrap(ml) < len(item)

RECURSIVE Pow(_, _)
Pow(b, e) == IF e = 0 THEN 1 ELSE b * Pow(b, e - 1)

\* the values of max_len the constructors are called with
MaxLens == {None} \cup {Some(m) : m \in 0..MaxBound}

VARIABLES
    pc,            \* "start", "failed" (Err), "alphabet" or "parsed" (Ok), "iter"
                   \* (one iterator built) or "pair" (two iterators built)
    alphabet_str,  \* the argument of from_chars_in_str
    alphabet,      \* the value from_chars_in_str returned
    ctor,          \* the constructor call that built the iterator
    max_len,       \* WordsIterator.max_len
    next_item,     \* WordsIterator.next_item
    returned,      \* the values next() has returned so far, oldest first
    pair           \* two WordsIterator borrowing the one alphabet, or << >>

vars == <<pc, alphabet_str, alphabet, ctor, max_len, next_item, returned, pair>>

NoCtor == [name |-> "none"]

Init ==
    /\ pc = "start"
    /\ alphabet_str = << >>
    /\ alphabet = [kind |-> "none"]
    /\ ctor = NoCtor
    /\ max_len = None
    /\ next_item = << >>
    /\ returned = << >>
    /\ pair = << >>

\* Alphabet::from_chars_in_str(s)
FromCharsInStr ==
    /\ pc = "start"
    /\ \E s \in Strings(MaxSrcLen) :
        /\ alphabet_str' = s
        /\ alphabet' = from_chars_in_str(s)
        /\ pc' = IF alphabet'.kind = "Ok" THEN "alphabet" ELSE "failed"
    /\ UNCHANGED <<ctor, max_len, next_item, returned, pair>>

\* Alphabet::all_words(m)
AllWords ==
    /\ pc = "alphabet"
    /\ \E m \in MaxLens :
        /\ ctor' = [name |-> "all_words", max_len |-> m]
        /\ max_len' = m
        /\ next_item' = <<alphabet.first_char>>
    /\ pc' = "iter"
    /\ UNCHANGED <<alphabet_str, alphabet, returned, pair>>

\* Alphabet::all_words_unbound()
AllWordsUnbound ==
    /\ pc = "alphabet"
    /\ ctor' = [name |-> "all_words_unbound"]
    /\ max_len' = None
    /\ next_item' = <<alphabet.first_char>>
    /\ pc' = "iter"
    /\ UNCHANGED <<alphabet_str, alphabet, returned, pair>>

\* Alphabet::all_words_starting_from(w, m)
AllWordsStartingFrom ==
    /\ pc = "alphabet"
    /\ \E w \in Strings(MaxStartLen), m \in MaxLens :
        /\ ctor' = [name |-> "all_words_starting_from", start_word |-> w, max_len |-> m]
        /\ max_len' = m
        /\ next_item' = w
    /\ pc' = "iter"
    /\ UNCHANGED <<alphabet_str, alphabet, returned, pair>>

\* AllWordsWithLen with the range 0..=start_len
AllWordsWithLen_Inclusive ==
    /\ pc = "alphabet"
    /\ \E s \in 0..MaxStartLen, m \in MaxLens :
        /\ ctor' = [name |-> "all_words_with_len", start_len |-> s, max_len |-> m]
        /\ max_len' = m
        /\ next_item' = [i \in 1..(s + 1) |-> alphabet.first_char]
    /\ pc' = "iter"
    /\ UNCHANGED <<alphabet_str, alphabet, returned, pair>>

\* Alphabet::all_words_with_len(s, m)
AllWordsWithLen ==
    /\ pc = "alphabet"
    /\ \E s \in 0..MaxStartLen, m \in MaxLens :
        /\ ctor' = [name |-> "all_words_with_len", start_len |-> s, max_len |-> m]
        /\ max_len' = m
        /\ next_item' = [i \in 1..s |-> alphabet.first_char]
    /\ pc' = "iter"
    /\ UNCHANGED <<alphabet_str, alphabet, returned, pair>>

\* N^1 + ... + N^n
RECURSIVE SumPow(_, _)
SumPow(N, n) == IF n = 0 THEN 0 ELSE Pow(N, n) + SumPow(N, n - 1)

\* the number of words next() is left to return: MaxPulls on a generator
\* without a bound, and on a generator with bound m the number of Strings of
\* at most m chars, which is more than it has words to return
PullCap(ml) ==
    IF is_none(ml) THEN MaxPulls ELSE SumPow(Cardinality(Chars), unwrap(ml)) + 1

\* the number of None values in a sequence of returned values
RECURSIVE Nones(_)
Nones(r) == IF r = << >> THEN 0 ELSE (IF Head(r) = None THEN 1 ELSE 0) + Nones(Tail(r))

\* NextNone rewinding the iterator to the first word when it returns None
NextNone_Rewind ==
    /\ pc = "iter"
    /\ Nones(returned) < MaxNones
    /\ Exhausted(max_len, next_item)
    /\ returned' = Append(returned, None)
    /\ next_item' = <<alphabet.first_char>>
    /\ UNCHANGED <<pc, alphabet_str, alphabet, ctor, max_len, pair>>

\* WordsIterator::next(), returning None without a change of the iterator
NextNone ==
    /\ pc = "iter"
    /\ Nones(returned) < MaxNones
    /\ Exhausted(max_len, next_item)
    /\ returned' = Append(returned, None)
    /\ UNCHANGED <<pc, alphabet_str, alphabet, ctor, max_len, next_item, pair>>

\* NextSome returning the word it has just computed
NextSome_ReturnsNew ==
    /\ pc = "iter"
    /\ Len(returned) < PullCap(max_len)
    /\ ~Exhausted(max_len, next_item)
    /\ next_item' = Successor(alphabet, next_item)
    /\ returned' = Append(returned, Some(next_item'))
    /\ UNCHANGED <<pc, alphabet_str, alphabet, ctor, max_len, pair>>

\* WordsIterator::next(), returning Some(current_item)
NextSome ==
    /\ pc = "iter"
    /\ Len(returned) < PullCap(max_len)
    /\ ~Exhausted(max_len, next_item)
    /\ next_item' = Successor(alphabet, next_item)
    /\ returned' = Append(returned, Some(next_item))
    /\ UNCHANGED <<pc, alphabet_str, alphabet, ctor, max_len, pair>>

\* WordsIterator::next()
IteratorNext == NextNone \/ NextSome

Next ==
    \/ FromCharsInStr
    \/ AllWords
    \/ AllWordsUnbound
    \/ AllWordsStartingFrom
    \/ AllWordsWithLen
    \/ IteratorNext

Spec == Init /\ [][Next]_vars

\* ------------------------------------------------------------ vocabulary
\* the set of chars of a String
Range(s) == {s[i] : i \in 1..Len(s)}

\* the distinct chars of s in order of first occurrence
RECURSIVE FirstOcc(_)
FirstOcc(s) ==
    IF s = << >> THEN << >>
    ELSE LET init == FirstOcc(SubSeq(s, 1, Len(s) - 1))
             c == s[Len(s)]
         IN  IF c \in Range(init) THEN init ELSE Append(init, c)

\* the successor map of the linear chain order[1] -> order[2] -> ... -> None
ChainMap(order) ==
    [c \in Range(order) |->
        LET i == CHOOSE j \in 1..Len(order) : order[j] = c
        IN  IF i < Len(order) THEN Some(order[i + 1]) ELSE None]

\* the chars met by following map m from c, for at most fuel steps
RECURSIVE Follow(_, _, _)
Follow(m, c, fuel) ==
    IF fuel = 0 \/ c \notin DOMAIN m THEN << >>
    ELSE <<c>> \o (IF is_some(m[c]) THEN Follow(m, unwrap(m[c]), fuel - 1) ELSE << >>)

\* the digit order of an alphabet: its successor chain from first_char
Order(alpha) ==
    Follow(alpha.next_char_map, alpha.first_char, Cardinality(DOMAIN alpha.next_char_map))

\* the words of exactly k symbols over the digit order, in lexicographic
\* order with the leftmost symbol varying slowest: the j-th word is j - 1
\* written with k digits in base Len(order)
WordsOfLen(order, k) ==
    [j \in 1..Pow(Len(order), k) |->
        [i \in 1..k |-> order[(((j - 1) \div Pow(Len(order), k - i)) % Len(order)) + 1]]]

\* the words of lo..hi symbols, shorter words first
RECURSIVE WordsBetween(_, _, _)
WordsBetween(order, lo, hi) ==
    IF lo > hi THEN << >> ELSE WordsOfLen(order, lo) \o WordsBetween(order, lo + 1, hi)

\* what Iterator::collect gathers from the returned values: the words
\* returned before the first None
RECURSIVE Collected(_)
Collected(r) ==
    IF r = << >> \/ Head(r) = None THEN << >> ELSE <<unwrap(Head(r))>> \o Collected(Tail(r))

\* the iterator has returned None: a collect() of it has finished
Finished == pc = "iter" /\ Nones(returned) > 0

\* ------------------------------------------------------------------ C4
\* C4: for every alphabet_str with at least 2 distinct symbols,
\* from_chars_in_str returns an alphabet whose first_char is the first symbol
\* of the string, whose keys are the distinct symbols of the string and whose
\* map is the linear chain of those symbols in order of first occurrence;
\* following the chain from first_char visits every key exactly once, and
\* the string with all repeats removed gives the same alphabet.
C4_ChainOfFirstOccurrences ==
    (pc # "start" /\ Cardinality(Range(alphabet_str)) >= 2) =>
        /\ alphabet.kind = "Ok"
        /\ alphabet.first_char = alphabet_str[1]
        /\ DOMAIN alphabet.next_char_map = Range(alphabet_str)
        /\ alphabet.next_char_map = ChainMap(FirstOcc(alphabet_str))
        /\ Order(alphabet) = FirstOcc(alphabet_str)
        /\ Len(Order(alphabet)) = Cardinality(DOMAIN alphabet.next_char_map)
        /\ Range(Order(alphabet)) = DOMAIN alphabet.next_char_map
        /\ alphabet.next_char_map[Order(alphabet)[Len(Order(alphabet))]] = None
        /\ from_chars_in_str(FirstOcc(alphabet_str)) = alphabet

\* an alphabet built from a string that repeats a symbol both next to its
\* first occurrence or later on
C4_Witness ==
    /\ pc = "alphabet"
    /\ Len(alphabet_str) > Cardinality(Range(alphabet_str))
    /\ alphabet_str[Len(alphabet_str)] = alphabet_str[1]
    /\ Cardinality(DOMAIN alphabet.next_char_map) = 2

\* ------------------------------------------------------------------ C5
\* C5: from_chars_in_str returns an error exactly when the string has fewer
\* than 2 distinct symbols, the error is the fixed message, every other string
\* gives an alphabet, and no string makes the construction panic.
C5_ErrIffFewerThanTwo ==
    pc # "start" =>
        /\ alphabet.kind \in {"Ok", "Err"}
        /\ alphabet.kind = "Err" <=> Cardinality(Range(alphabet_str)) < 2
        /\ alphabet.kind = "Err" => alphabet.err = ErrMsg

\* the construction failed on a string that repeats its only symbol
C5_Witness ==
    /\ pc = "failed"
    /\ Len(alphabet_str) >= 2
    /\ alphabet.kind = "Err"

\* ----------------------------------------------------- generator helpers
\* every key of the alphabet takes one byte in UTF-8
SingleByte(alpha) == \A c \in DOMAIN alpha.next_char_map : len_utf8(c) = 1

\* every symbol of w is a key of the alphabet
OverAlphabet(alpha, w) == Range(w) \subseteq DOMAIN alpha.next_char_map

\* the words a collect() gathers from an iterator with bound ml and pending
\* word item
RECURSIVE Collect(_, _, _)
Collect(alpha, ml, item) ==
    IF Exhausted(ml, item) THEN << >>
    ELSE <<item>> \o Collect(alpha, ml, Successor(alpha, item))

\* seq without the items before the first occurrence of w
RECURSIVE DropBefore(_, _)
DropBefore(seq, w) ==
    IF seq = << >> \/ Head(seq) = w THEN seq ELSE DropBefore(Tail(seq), w)

\* the call of next() this step makes returns None
ReturnsNone == returned' # returned /\ returned'[Len(returned')] = None

\* ------------------------------------------------------------------ C1
\* C1: for every alphabet of N >= 2 symbols and every bound n,
\* all_words(Some(n)) emits exactly the words of length 1..n, each once,
\* shorter words first and within one length in the lexicographic order of
\* the successor chain, N^1 + ... + N^n words in all.
C1_AllWordsUpTo ==
    (Finished /\ ctor.name = "all_words" /\ is_some(ctor.max_len)) =>
        /\ Collected(returned) = WordsBetween(Order(alphabet), 1, unwrap(ctor.max_len))
        /\ Len(Collected(returned)) = SumPow(Len(Order(alphabet)), unwrap(ctor.max_len))

\* the same for the alphabets whose symbols take one byte each
C1_AllWordsUpTo_SingleByte ==
    (pc = "iter" /\ SingleByte(alphabet)) => C1_AllWordsUpTo

\* ------------------------------------------------------------------ C2
\* C2: max_len bounds the word length counted in symbols: a call of next()
\* returns None exactly when max_len is Some(m) and the pending word has
\* more than m symbols, multi-byte symbols included.
C2_BoundCountsSymbols ==
    [][(pc = "iter" /\ returned' # returned) =>
          (ReturnsNone <=> (is_some(max_len) /\ Len(next_item) > unwrap(max_len)))]_vars

\* what the code does: the bound is compared with the length in bytes
C2_BoundCountsBytes ==
    [][(pc = "iter" /\ returned' # returned) =>
          (ReturnsNone <=> (is_some(max_len) /\ len(next_item) > unwrap(max_len)))]_vars

\* ------------------------------------------------------------------ C3
\* C3: for every alphabet, bound n and word w over the alphabet with
\* 1 <= |w| <= n, all_words_starting_from(w, Some(n)) emits the sequence of
\* all_words(Some(n)) without the items before w.
C3_RestartEquivalence ==
    (/\ Finished
     /\ ctor.name = "all_words_starting_from"
     /\ is_some(ctor.max_len)
     /\ OverAlphabet(alphabet, ctor.start_word)
     /\ 1 <= Len(ctor.start_word)
     /\ Len(ctor.start_word) <= unwrap(ctor.max_len)) =>
        Collected(returned) =
            DropBefore(Collect(alphabet, ctor.max_len, <<alphabet.first_char>>),
                       ctor.start_word)

\* the same for the alphabets whose symbols take one byte each
C3_RestartEquivalence_SingleByte ==
    (pc = "iter" /\ SingleByte(alphabet)) => C3_RestartEquivalence

\* ------------------------------------------------------------------ C6
\* C6: all_words_with_len(s, Some(m)) emits first s copies of first_char and
\* then exactly the words of length s..m in odometer order, none shorter
\* than s, and nothing when s > m.
C6_WordsWithLen ==
    (Finished /\ ctor.name = "all_words_with_len" /\ is_some(ctor.max_len)) =>
        LET s == ctor.start_len
            m == unwrap(ctor.max_len)
            words == Collected(returned)
        IN  /\ words = WordsBetween(Order(alphabet), s, m)
            /\ s <= m => words[1] = [i \in 1..s |-> alphabet.first_char]
            /\ \A i \in 1..Len(words) : Len(words[i]) >= s
            /\ s > m => words = << >>

\* the same for the alphabets whose symbols take one byte each
C6_WordsWithLen_SingleByte ==
    (pc = "iter" /\ SingleByte(alphabet)) => C6_WordsWithLen

\* ------------------------------------------------------------------ C7
\* C7: once next() has returned None, every later call returns None, and a
\* call that returns None leaves the pending word and the bound unchanged.
C7_ExhaustionSticky ==
    [][/\ Nones(returned) > 0 => returned' = Append(returned, None)
       /\ ReturnsNone => (next_item' = next_item /\ max_len' = max_len)]_vars

\* next() has been called again after it returned None
C7_Witness ==
    /\ Nones(returned) >= 2
    /\ Len(Collected(returned)) >= 2

\* ------------------------------------------------------------------ C8
\* C8: the words all_words_unbound() emits are pairwise distinct.
C8_UnboundDistinct ==
    (pc = "iter" /\ ctor.name = "all_words_unbound") =>
        \A i, j \in 1..Len(returned) : i < j => returned[i] # returned[j]

\* an unbound generator has emitted words of three lengths
C8_Witness ==
    /\ pc = "iter"
    /\ ctor.name = "all_words_unbound"
    /\ Len(returned) = MaxPulls
    /\ Len(next_item) >= 3

\* ------------------------------------------------------------------ C9
\* C9: a generator with max_len = None never returns None, whatever the
\* start word, in or out of the alphabet.
C9_UnboundNeverNone ==
    (pc = "iter" /\ is_none(max_len)) => \A i \in 1..Len(returned) : is_some(returned[i])

\* a generator without bound, started from a word with a symbol out of the
\* alphabet, has been pulled MaxPulls times
C9_Witness ==
    /\ pc = "iter"
    /\ is_none(max_len)
    /\ ctor.name = "all_words_starting_from"
    /\ ~OverAlphabet(alphabet, ctor.start_word)
    /\ Len(returned) = MaxPulls

\* ----------------------------------------------------------------- C10
\* the caller keeps calling next(), as collect() does
FairSpec == Spec /\ WF_vars(IteratorNext)

\* C10: a generator with max_len = Some(m) returns None after finitely many
\* calls, for every alphabet and every start word.
C10_BoundedTerminates ==
    (pc = "iter" /\ is_some(max_len)) ~> Finished

\* a bounded generator started from a word with a symbol out of the
\* alphabet has emitted words and then returned None
C10_Witness ==
    /\ Finished
    /\ is_some(max_len)
    /\ ctor.name = "all_words_starting_from"
    /\ ~OverAlphabet(alphabet, ctor.start_word)
    /\ Len(Collected(returned)) >= 3

\* ------------------------------------------------------ odometer helpers
\* the value of the latest call of next()
LastReturned == returned[Len(returned)]

\* the latest call of next() returned a word
Emitted == pc = "iter" /\ returned # << >> /\ is_some(LastReturned)

\* the word the latest call of next() returned
EmittedWord == unwrap(LastReturned)

\* c is the last symbol of the alphabet's chain
Maximal(alpha, c) == c \in DOMAIN alpha.next_char_map /\ alpha.next_char_map[c] = None

\* c is not a key of the alphabet
Unknown(alpha, c) == c \notin DOMAIN alpha.next_char_map

\* the number of symbols of w that are not keys of the alphabet
Unknowns(alpha, w) == Cardinality({i \in 1..Len(w) : Unknown(alpha, w[i])})

\* every symbol of w right of position p is maximal or unknown: the carry
\* reaches position p
CarryReaches(alpha, w, p) ==
    \A i \in (p + 1)..Len(w) : Maximal(alpha, w[i]) \/ Unknown(alpha, w[i])

\* the results of the first n calls of next() on an iterator with bound ml
\* and pending word item
RECURSIVE Run(_, _, _, _)
Run(alpha, ml, item, n) ==
    IF n = 0 THEN << >>
    ELSE IF Exhausted(ml, item)
         THEN <<None>> \o Run(alpha, ml, item, n - 1)
         ELSE <<Some(item)>> \o Run(alpha, ml, Successor(alpha, item), n - 1)

C12_UnknownSymbolFallback ==
    Emitted =>
        LET w == EmittedWord
            d == Len(next_item) - Len(w)
        IN  \A p \in 1..Len(w) :
                (Unknown(alphabet, w[p]) /\ CarryReaches(alphabet, w, p)) =>
                    /\ d \in {0, 1}
                    /\ next_item[p + d] = alphabet.first_char
                    /\ p = 1 => (d = 1 /\ next_item[1] = alphabet.first_char)
                    /\ p > 1 =>
                        next_item[p - 1 + d] =
                            IF Unknown(alphabet, w[p - 1]) \/ Maximal(alphabet, w[p - 1])
                            THEN alphabet.first_char
                            ELSE unwrap(alphabet.next_char_map[w[p - 1]])

\* next() has returned a word of two symbols whose last symbol is out of
\* the alphabet and whose first symbol has a successor
C12_Witness ==
    /\ Emitted
    /\ Len(EmittedWord) = 2
    /\ Unknown(alphabet, EmittedWord[2])
    /\ ~Unknown(alphabet, EmittedWord[1])
    /\ ~Maximal(alphabet, EmittedWord[1])

\* ----------------------------------------------------------------- C14
\* C14: when next() emits a word w over the alphabet with a non-maximal
\* symbol, the new pending word has the length of w, has first_char in place
\* of the trailing run of maximal symbols, the successor in place of the
\* symbol left of that run, and the symbols of w further left.
C14_CarryFrame ==
    (/\ Emitted
     /\ OverAlphabet(alphabet, EmittedWord)
     /\ \E i \in 1..Len(EmittedWord) : ~Maximal(alphabet, EmittedWord[i])) =>
        LET w == EmittedWord
            p == CHOOSE i \in 1..Len(w) :
                    ~Maximal(alphabet, w[i]) /\ \A j \in (i + 1)..Len(w) : Maximal(alphabet, w[j])
        IN  /\ Len(next_item) = Len(w)
            /\ \A i \in 1..(p - 1) : next_item[i] = w[i]
            /\ next_item[p] = unwrap(alphabet.next_char_map[w[p]])
            /\ \A i \in (p + 1)..Len(w) : next_item[i] = alphabet.first_char

\* next() has emitted a word of three symbols that ends with the maximal
\* symbol and has a maximal symbol left of the incremented one
C14_Witness ==
    /\ Emitted
    /\ OverAlphabet(alphabet, EmittedWord)
    /\ Len(EmittedWord) = 3
    /\ Maximal(alphabet, EmittedWord[1])
    /\ ~Maximal(alphabet, EmittedWord[2])
    /\ Maximal(alphabet, EmittedWord[3])

\* ----------------------------------------------------------------- C15
\* C15: when the emitted word is L >= 1 copies of the maximal symbol, the
\* new pending word is L + 1 copies of first_char, and it is the next word
\* emitted if a word is emitted.
C15_LengthGrowth ==
    pc = "iter" =>
        \A i \in 1..Len(returned) :
            (/\ is_some(returned[i])
             /\ Len(unwrap(returned[i])) >= 1
             /\ \A k \in 1..Len(unwrap(returned[i])) : Maximal(alphabet, unwrap(returned[i])[k])) =>
                LET grown == [k \in 1..(Len(unwrap(returned[i])) + 1) |-> alphabet.first_char]
                IN  /\ i = Len(returned) => next_item = grown
                    /\ i < Len(returned) => returned[i + 1] \in {None, Some(grown)}

\* the word of two maximal symbols was emitted and the word of three
\* first_char after it
C15_Witness ==
    /\ pc = "iter"
    /\ \E i \in 1..(Len(returned) - 1) :
        /\ is_some(returned[i])
        /\ Len(unwrap(returned[i])) = 2
        /\ \A k \in 1..2 : Maximal(alphabet, unwrap(returned[i])[k])
        /\ returned[i + 1] = Some([k \in 1..3 |-> alphabet.first_char])

\* ----------------------------------------------------------------- C17
\* C17: a generator seeded with the empty word, by all_words_with_len(0, m)
\* or all_words_starting_from("", m), emits the empty word first, for every
\* bound, and after it the sequence of all_words(m).
C17_EmptySeed ==
    (/\ pc = "iter"
     /\ \/ ctor.name = "all_words_with_len" /\ ctor.start_len = 0
        \/ ctor.name = "all_words_starting_from" /\ ctor.start_word = << >>
     /\ Len(returned) >= 1) =>
        /\ returned[1] = Some(<< >>)
        /\ Tail(returned) =
              Run(alphabet, ctor.max_len, <<alphabet.first_char>>, Len(returned) - 1)

\* all_words_with_len(0, Some(0)) has emitted the empty word and then None
C17_Witness ==
    /\ pc = "iter"
    /\ ctor.name = "all_words_with_len"
    /\ ctor.start_len = 0
    /\ ctor.max_len = Some(0)
    /\ returned = <<Some(<< >>), None>>

\* all_words_starting_from("", m) has emitted the empty word and three more
C17_WitnessStartingFrom ==
    /\ pc = "iter"
    /\ ctor.name = "all_words_starting_from"
    /\ ctor.start_word = << >>
    /\ Len(Collected(returned)) >= 4

\* ----------------------------------------------------------------- C18
\* C18: over any sequence of calls of next() the length in symbols of the
\* pending word never decreases and grows by at most one per call; it grows
\* by one exactly when the call emits a word whose symbols are all maximal
\* or out of the alphabet.
C18_LengthMonotone ==
    [][(pc = "iter" /\ returned' # returned) =>
          /\ Len(next_item') \in {Len(next_item), Len(next_item) + 1}
          /\ Len(next_item') = Len(next_item) + 1 <=>
                /\ ~ReturnsNone
                /\ \A i \in 1..Len(next_item) :
                      Maximal(alphabet, next_item[i]) \/ Unknown(alphabet, next_item[i])]_vars

\* the pending word has grown twice from a start word out of the alphabet
C18_Witness ==
    /\ pc = "iter"
    /\ ctor.name = "all_words_starting_from"
    /\ ~OverAlphabet(alphabet, ctor.start_word)
    /\ Len(ctor.start_word) >= 1
    /\ Len(next_item) = Len(ctor.start_word) + 2

\* ----------------------------------------------------------------- C16
\* C16: a call of next() never writes a symbol out of the alphabet, so the
\* number of such symbols in the pending word never increases; and on a
\* generator without bound the pending word eventually has only symbols of
\* the alphabet and keeps so.
C16_UnknownsVanish ==
    /\ [][pc = "iter" =>
            LET d == Len(next_item') - Len(next_item)
            IN  /\ Unknowns(alphabet, next_item') <= Unknowns(alphabet, next_item)
                /\ \A i \in 1..Len(next_item') :
                      \/ ~Unknown(alphabet, next_item'[i])
                      \/ (i - d >= 1 /\ next_item'[i] = next_item[i - d])]_vars
    /\ (pc = "iter" /\ is_none(max_len)) ~> [](pc = "iter" /\ OverAlphabet(alphabet, next_item))

\* a generator without bound started from a word of two symbols whose first
\* symbol is out of the alphabet has a pending word over the alphabet
C16_Witness ==
    /\ pc = "iter"
    /\ is_none(max_len)
    /\ ctor.name = "all_words_starting_from"
    /\ Len(ctor.start_word) = 2
    /\ Unknown(alphabet, ctor.start_word[1])
    /\ ~Unknown(alphabet, ctor.start_word[2])
    /\ OverAlphabet(alphabet, next_item)

\* ------------------------------------------------------- two iterators
\* <Alphabet as str::FromStr>::from_str
from_str(s) == from_chars_in_str(s)

\* the values of max_len two iterators on one alphabet are built with
PairLens == {None} \cup {Some(m) : m \in 1..MaxPairLen}

\* value.parse::<Alphabet>()
FromStr ==
    /\ pc = "start"
    /\ \E s \in Strings(MaxParseLen) :
        /\ alphabet_str' = s
        /\ alphabet' = from_str(s)
        /\ pc' = IF alphabet'.kind = "Ok" THEN "parsed" ELSE "failed"
    /\ UNCHANGED <<ctor, max_len, next_item, returned, pair>>

\* a WordsIterator value, with the pending word it was built with
WordsIterator(ml, item) ==
    [max_len |-> ml, next_item |-> item, start |-> item, returned |-> << >>]

\* alphabet.all_words(m1) and alphabet.all_words_starting_from(w, m2), both
\* alive
SharePair ==
    /\ pc = "parsed"
    /\ \E m1 \in PairLens, m2 \in PairLens, w \in Strings(MaxPairLen) :
        pair' = << WordsIterator(m1, <<alphabet.first_char>>), WordsIterator(m2, w) >>
    /\ pc' = "pair"
    /\ UNCHANGED <<alphabet_str, alphabet, ctor, max_len, next_item, returned>>

\* next() on iterator g of the pair, returning None
PairNextNone(g) ==
    /\ pc = "pair"
    /\ Nones(pair[g].returned) < MaxNones
    /\ Exhausted(pair[g].max_len, pair[g].next_item)
    /\ pair' = [pair EXCEPT ![g].returned = Append(@, None)]
    /\ UNCHANGED <<pc, alphabet_str, alphabet, ctor, max_len, next_item, returned>>

\* PairNextSome keeping the pending word in one place for both iterators
PairNextSome_SharedPending(g) ==
    /\ pc = "pair"
    /\ Len(pair[g].returned) < PullCap(pair[g].max_len)
    /\ ~Exhausted(pair[g].max_len, pair[g].next_item)
    /\ pair' = [h \in 1..2 |->
                  IF h = g
                  THEN [pair[g] EXCEPT !.next_item = Successor(alphabet, pair[g].next_item),
                                       !.returned = Append(@, Some(pair[g].next_item))]
                  ELSE [pair[h] EXCEPT !.next_item = Successor(alphabet, pair[g].next_item)]]
    /\ UNCHANGED <<pc, alphabet_str, alphabet, ctor, max_len, next_item, returned>>

\* next() on iterator g of the pair, returning Some(current_item)
PairNextSome(g) ==
    /\ pc = "pair"
    /\ Len(pair[g].returned) < PullCap(pair[g].max_len)
    /\ ~Exhausted(pair[g].max_len, pair[g].next_item)
    /\ pair' = [pair EXCEPT ![g].next_item = Successor(alphabet, pair[g].next_item),
                            ![g].returned = Append(@, Some(pair[g].next_item))]
    /\ UNCHANGED <<pc, alphabet_str, alphabet, ctor, max_len, next_item, returned>>

\* next() on either iterator of the pair
PairNext == \E g \in 1..2 : PairNextNone(g) \/ PairNextSome(g)

TwoNext ==
    \/ FromStr
    \/ SharePair
    \/ PairNext

\* one alphabet and two iterators on it, called in any order
TwoSpec == Init /\ [][TwoNext]_vars

\* ----------------------------------------------------------------- C13
\* C13: under any interleaving of calls of next() on two generators that
\* share an alphabet, each generator emits the sequence it emits alone, a
\* call on one leaves the pending word and the bound of the other unchanged,
\* and no call changes the successor map or first_char of the alphabet.
C13_Independent ==
    /\ [](pc = "pair" =>
            \A g \in 1..2 :
                pair[g].returned =
                    Run(alphabet, pair[g].max_len, pair[g].start, Len(pair[g].returned)))
    /\ [][pc = "pair" =>
            /\ alphabet' = alphabet
            /\ \A g \in 1..2 :
                  pair'[g].returned # pair[g].returned =>
                      \A h \in (1..2) \ {g} :
                          /\ pair'[h].next_item = pair[h].next_item
                          /\ pair'[h].max_len = pair[h].max_len
                          /\ pair'[h].returned = pair[h].returned]_vars

\* both generators have emitted two words or more, and they are at
\* different words
C13_Witness ==
    /\ pc = "pair"
    /\ Len(Collected(pair[1].returned)) >= 2
    /\ Len(Collected(pair[2].returned)) >= 2
    /\ pair[1].next_item # pair[2].next_item

====
